---- MODULE Spec2Model ----
(***************************************************************************)
(* Model of the commit-farm daemon (src/commit_farm.py): the daily         *)
(* schedule generator, the state file and the scheduling loop of main().   *)
(*                                                                         *)
(* Time is a wall clock counted in ticks, and the clock never goes back.   *)
(* A day has HoursPerDay hours of SecsPerHour ticks each (24 and 3600 in   *)
(* the program).  The durations the program hard-codes (the 60.0 and 30.0  *)
(* sleep increments, the 30.0 idle floor, the 2 second pause) are scaled   *)
(* down with the day and keep their order:                                 *)
(* Pause < EventChunk = IdleFloor < IdleChunk.                             *)
(*                                                                         *)
(* A datetime is a tick count.  An ISO timestamp string is the tuple       *)
(* <<day, hour, second-in-hour>> and a date string is the day number.      *)
(***************************************************************************)
EXTENDS Integers, Sequences, FiniteSets, TLC

\* ------------------------------------------ the calendar, scaled down
SecsPerHour == 2
HoursPerDay == 3

\* ---------------------------------------------------------------- bounds
MaxDays     == 2
MaxLag      == 1
MaxCommits  == 2
MaxRestarts == 1
TrivialMargin == 1

\* ------------------------------------------------- durations of the code
IdleChunk  == 3
EventChunk == 2
IdleFloor  == 2
Pause      == 1

DayLen  == HoursPerDay * SecsPerHour
MaxTime == MaxDays * DayLen
None    == -1

VARIABLES
    clock,            \* the wall clock (datetime.now())
    pc,               \* position of the process in main()
    cfg,              \* the validated configuration of read_config()
    disk,             \* the content of state.json
    state_date,       \* state["date"] in memory (None when absent)
    scheduled_times,  \* scheduled_times == state["scheduled_times"] in memory
    now,              \* `now` of the current loop iteration
    nxt,              \* `nxt` of the current loop iteration
    slept,            \* `slept` of the running sleep loop
    should_terminate, \* killer.should_terminate
    lastFired,        \* history: timestamp consumed by the latest firing of this run
    observed,         \* history: a check of this run has read the flag as set
    termSlept,        \* history: ticks slept by increments that ended after the flag was set
    termRemain,       \* history: sleep still to do when the flag was set in a sleep loop
    termIn,           \* history: the sleep loop the flag was set in ("idle", "event", "none")
    termSteps,        \* history: steps the process took since the flag was set in a sleep loop
    restarts,         \* history: how often the daemon has been started again
    crashPending,     \* history: timestamps pending in memory at the latest crash in the loop
    crashDay,         \* history: day of that crash (None when the run did not start from one)
    prevFired,        \* history: during a firing, the timestamp the run's previous firing consumed
    firedEver,        \* history: the latest timestamp a firing of any run has consumed
    env,              \* the environment of the process: os.environ, argv, PATH, the file systems
    outcome,          \* what the side effect of the firing in progress did ("none" outside one)
    appended,         \* history: an activity line has been appended
    genDay,           \* history: the date the generator last produced a schedule for
    fireDay,          \* history: the date of the latest firing that was counted
    fireCount         \* history: the firings performed on fireDay, by any run (None: not counted)

vars == <<clock, pc, cfg, disk, state_date, scheduled_times, now, nxt, slept,
          should_terminate, lastFired, observed, termSlept, termRemain, termIn,
          termSteps, restarts, crashPending, crashDay, prevFired, firedEver,
          env, outcome, appended, genDay, fireDay, fireCount>>

\* ------------------------------------------------------- clock utilities
Min(a, b) == IF a < b THEN a ELSE b
Max(a, b) == IF a > b THEN a ELSE b

\* today_str(dt): the date string of dt
today_str(dt) == dt \div DayLen

\* dt.replace(hour=h, minute=0, second=0, microsecond=0)
replace_hour(dt, h) == (dt \div DayLen) * DayLen + h * SecsPerHour

\* dt.isoformat()
isoformat(dt) == <<dt \div DayLen, (dt % DayLen) \div SecsPerHour, dt % SecsPerHour>>

\* datetime.fromisoformat(s)
fromisoformat(s) == s[1] * DayLen + s[2] * SecsPerHour + s[3]

\* ------------------------------------------------------ the configuration
\* read_config(): the configurations that pass validation
ValidConfigs ==
    { c \in [start_hour : 0 .. HoursPerDay - 1, end_hour : 0 .. HoursPerDay - 1,
             min_commits : 1 .. MaxCommits, max_commits : 1 .. MaxCommits] :
        /\ c.end_hour > c.start_hour
        /\ c.min_commits <= c.max_commits }

\* --------------------------------------------------------- the environment
\* The environment of a process is a record: the settings of os.environ as
\* texts (REPO_PATH names no path, a path that is no directory, a directory
\* without .git, or a repository), whether USER_NAME and USER_EMAIL are both
\* set (identity), whether a git executable is in PATH (git), the --now flag
\* (now), and the operations that can fail in it (faults): writes of the state
\* file, appends to the activity file, git commit and git push.
Texts(S) == { ToString(n) : n \in S }

\* the texts int() of lines 65-68 accepts; every other text raises ValueError
IntTexts == Texts(-1 .. Max(HoursPerDay, MaxCommits))

int(s) == CHOOSE n \in -1 .. Max(HoursPerDay, MaxCommits) : ToString(n) = s

Environments ==
    [REPO_PATH : {"", "/missing", "/plain", "/repo"},
     WORK_START_HOUR : Texts(-1 .. HoursPerDay - 1) \cup {"x"},
     WORK_END_HOUR : Texts(0 .. HoursPerDay),
     MIN_COMMITS : Texts(0 .. MaxCommits),
     MAX_COMMITS : Texts(0 .. MaxCommits),
     identity : BOOLEAN,
     git : BOOLEAN,
     now : BOOLEAN,
     faults : {{}, {"activity_file", "git_commit", "git_push"}}]

\* an environment in which read_config() returns c and nothing fails
Healthy(c) ==
    [REPO_PATH |-> "/repo",
     WORK_START_HOUR |-> ToString(c.start_hour),
     WORK_END_HOUR |-> ToString(c.end_hour),
     MIN_COMMITS |-> ToString(c.min_commits),
     MAX_COMMITS |-> ToString(c.max_commits),
     identity |-> TRUE,
     git |-> TRUE,
     now |-> FALSE,
     faults |-> {}]

\* read_config() ends the process: int() raises (lines 65-68) or a check of
\* lines 79-105 calls sys.exit(1)
ConfigError(e) ==
    \/ \E k \in {"WORK_START_HOUR", "WORK_END_HOUR", "MIN_COMMITS", "MAX_COMMITS"} :
          e[k] \notin IntTexts
    \/ e.REPO_PATH = ""
    \/ e.REPO_PATH = "/missing"
    \/ \E k \in {"WORK_START_HOUR", "WORK_END_HOUR"} :
          int(e[k]) < 0 \/ int(e[k]) > HoursPerDay - 1
    \/ int(e.WORK_END_HOUR) <= int(e.WORK_START_HOUR)
    \/ int(e.MIN_COMMITS) < 1
    \/ int(e.MAX_COMMITS) < 1
    \/ int(e.MIN_COMMITS) > int(e.MAX_COMMITS)

\* the config read_config() returns (line 107)
read_config(e) ==
    [start_hour |-> int(e.WORK_START_HOUR), end_hour |-> int(e.WORK_END_HOUR),
     min_commits |-> int(e.MIN_COMMITS), max_commits |-> int(e.MAX_COMMITS)]

\* run_git_command(): FileNotFoundError when no git is in PATH (lines 123-125)
GitNotFound(e) == ~e.git

\* perform_commit(): what lines 253-271 end in
perform_commit(e) ==
    IF GitNotFound(e) THEN {"git_missing"}
    ELSE {"committed"} \cup
         (IF "git_commit" \in e.faults THEN {"nothing_to_commit", "commit_failed"} ELSE {}) \cup
         (IF "git_push" \in e.faults THEN {"push_failed"} ELSE {})

\* lines 360-366: append_activity_line raises (os.makedirs or open fails), or
\* the line is appended and perform_commit runs
SideEffect(e) ==
    (IF "activity_file" \in e.faults THEN {"append_error"} ELSE {}) \cup perform_commit(e)

\* the outcomes that leave main(): an exception nobody catches before line
\* 382, or the sys.exit(1) of line 125
Leaves == {"append_error", "git_missing"}

\* ------------------------------------------------------------ state store
Missing == [kind |-> "missing"]
Torn    == [kind |-> "torn"]
Stored(d, ts) == [kind |-> "ok", date |-> d, times |-> ts]

\* a file open() cannot read, and a file holding JSON that is no object
Unreadable == [kind |-> "unreadable"]
NonObject  == [kind |-> "nonobject"]

\* a list entry datetime.fromisoformat raises on
Malformed == <<None, None, None>>

\* read_state(): {} for a missing, unreadable or unparsable file, else the
\* value json.load returns (dict tells whether it is an object)
read_state(file) ==
    IF file.kind = "ok" THEN [dict |-> TRUE, date |-> file.date, times |-> file.times]
    ELSE IF file.kind = "nonobject" THEN [dict |-> FALSE, date |-> None, times |-> <<>>]
    ELSE [dict |-> TRUE, date |-> None, times |-> <<>>]

\* write_state(state)
write_state(d, ts) == Stored(d, ts)

\* the file after a call of write_state: written; or, where writes can fail,
\* as it was (open raised) or cut short (json.dump raised)
WriteOutcomes(d, ts) ==
    {write_state(d, ts)} \cup (IF "state_file" \in env.faults THEN {disk, Torn} ELSE {})

\* ------------------------------------------------------------- generator
\* random.sample(range(n), k): the sets of k distinct offsets below n
RECURSIVE SampleFrom(_, _)
SampleFrom(S, k) ==
    IF k = 0 THEN {{}}
    ELSE IF S = {} THEN {}
    ELSE LET x == CHOOSE y \in S : \A z \in S : y <= z
             R == S \ {x}
         IN SampleFrom(R, k) \cup { T \cup {x} : T \in SampleFrom(R, k - 1) }

random_sample(n, k) == SampleFrom(0 .. n - 1, k)

\* mutant of sorted: the offsets stay in the order sampled (here: descending)
RECURSIVE unsorted(_)
unsorted(S) ==
    IF S = {} THEN <<>>
    ELSE LET x == CHOOSE y \in S : \A z \in S : y >= z
         IN <<x>> \o unsorted(S \ {x})

\* sorted(offsets)
RECURSIVE sorted(_)
sorted(S) ==
    IF S = {} THEN <<>>
    ELSE LET x == CHOOSE y \in S : \A z \in S : y <= z
         IN <<x>> \o sorted(S \ {x})

\* mutant of FutureTimes: `<` for `<=`, a time equal to now is kept
RECURSIVE FutureTimesInclusive(_, _, _)
FutureTimesInclusive(offsets, day_start, t) ==
    IF offsets = <<>> THEN <<>>
    ELSE LET scheduled_time == day_start + Head(offsets)
             rest == FutureTimesInclusive(Tail(offsets), day_start, t)
         IN IF scheduled_time < t THEN rest
            ELSE <<isoformat(scheduled_time)>> \o rest

\* the loop of lines 204-209: keep the times after t, as ISO strings
RECURSIVE FutureTimes(_, _, _)
FutureTimes(offsets, day_start, t) ==
    IF offsets = <<>> THEN <<>>
    ELSE LET scheduled_time == day_start + Head(offsets)
             rest == FutureTimes(Tail(offsets), day_start, t)
         IN IF scheduled_time <= t THEN rest
            ELSE <<isoformat(scheduled_time)>> \o rest

\* mutant of generate_schedule_for_today: the test of line 187 is missing and
\* the times of the whole window are kept, whatever the clock says
generate_schedule_full_window(t, c) ==
    LET day_start == replace_hour(t, c.start_hour)
        day_end   == replace_hour(t, c.end_hour)
        total_seconds == day_end - day_start
    IN IF total_seconds <= 0 THEN {<<>>}
       ELSE { FutureTimes(sorted(offs), day_start, day_start - 1) :
                offs \in UNION { random_sample(total_seconds, Min(n, Max(1, total_seconds))) :
                                   n \in c.min_commits .. c.max_commits } }

\* mutant of ClampCount: the clamp is off by one
ClampCountLess(commit_count, total_seconds) == Min(commit_count, Max(1, total_seconds)) - 1

\* commit_count after the clamp of line 200
ClampCount(commit_count, total_seconds) == Min(commit_count, Max(1, total_seconds))

\* generate_schedule_for_today at clock t: the set of the results it can return
generate_schedule_for_today(t, c) ==
    LET day_start == replace_hour(t, c.start_hour)
        day_end   == replace_hour(t, c.end_hour)
        total_seconds == day_end - day_start
    IN IF t > day_end THEN {<<>>}
       ELSE IF total_seconds <= 0 THEN {<<>>}
       ELSE { FutureTimes(sorted(offs), day_start, t) :
                offs \in UNION { random_sample(total_seconds, ClampCount(n, total_seconds)) :
                                   n \in c.min_commits .. c.max_commits } }

\* ------------------------------------------------------ loop's helpers
\* mutant of next_scheduled_time: the loop runs over scheduled_iso_times[:-1]
RECURSIVE next_scheduled_time_but_last(_, _)
next_scheduled_time_but_last(times, t) ==
    IF Len(times) <= 1 THEN None
    ELSE IF fromisoformat(Head(times)) > t THEN fromisoformat(Head(times))
    ELSE next_scheduled_time_but_last(Tail(times), t)

\* mutant of next_scheduled_time: `>=` for `>`, a time equal to now is due
RECURSIVE next_scheduled_time_inclusive(_, _)
next_scheduled_time_inclusive(times, t) ==
    IF times = <<>> THEN None
    ELSE IF fromisoformat(Head(times)) >= t THEN fromisoformat(Head(times))
    ELSE next_scheduled_time_inclusive(Tail(times), t)

\* next_scheduled_time at clock t: the first entry after t, or None
RECURSIVE next_scheduled_time(_, _)
next_scheduled_time(times, t) ==
    IF times = <<>> THEN None
    ELSE IF fromisoformat(Head(times)) > t THEN fromisoformat(Head(times))
    ELSE next_scheduled_time(Tail(times), t)

\* mutant of PurgePast: `>=` for `>`, a time equal to now survives
RECURSIVE PurgePastInclusive(_, _)
PurgePastInclusive(times, t) ==
    IF times = <<>> THEN <<>>
    ELSE IF fromisoformat(Head(times)) >= t
         THEN <<Head(times)>> \o PurgePastInclusive(Tail(times), t)
         ELSE PurgePastInclusive(Tail(times), t)

\* [t for t in scheduled_times if datetime.fromisoformat(t) > now]
RECURSIVE PurgePast(_, _)
PurgePast(times, t) ==
    IF times = <<>> THEN <<>>
    ELSE IF fromisoformat(Head(times)) > t
         THEN <<Head(times)>> \o PurgePast(Tail(times), t)
         ELSE PurgePast(Tail(times), t)

\* mutant of RemoveUsed: the string is compared with the datetime, never equal
RemoveNothing(times, iso) == times

\* mutant of RemoveUsed: `t > nxt.isoformat()`, every entry up to the used one goes
RECURSIVE RemoveThrough(_, _)
RemoveThrough(times, iso) ==
    IF times = <<>> THEN <<>>
    ELSE IF fromisoformat(Head(times)) > fromisoformat(iso)
         THEN <<Head(times)>> \o RemoveThrough(Tail(times), iso)
         ELSE RemoveThrough(Tail(times), iso)

\* [t for t in scheduled_times if t != nxt.isoformat()]
RECURSIVE RemoveUsed(_, _)
RemoveUsed(times, iso) ==
    IF times = <<>> THEN <<>>
    ELSE IF Head(times) # iso
         THEN <<Head(times)>> \o RemoveUsed(Tail(times), iso)
         ELSE RemoveUsed(Tail(times), iso)

\* sleep_seconds of the idle sleep (lines 336-337)
IdleSleepSeconds(t, c) ==
    LET next_day == replace_hour(t + DayLen, c.start_hour)
    IN Max(IdleFloor, next_day - t)

\* delta of the event sleep (line 347)
EventDelta == nxt - now

\* ------------------------------------------------------------------ Init
\* main() up to line 296: the configuration is validated, the killer is
\* installed; the state file is the one an earlier run left (none at first).
Init ==
    /\ clock \in 0 .. DayLen - 1
    /\ pc = "init"
    /\ cfg \in ValidConfigs
    /\ disk = Missing
    /\ state_date = None
    /\ scheduled_times = <<>>
    /\ now = 0
    /\ nxt = None
    /\ slept = 0
    /\ should_terminate = FALSE
    /\ lastFired = None
    /\ observed = FALSE
    /\ termSlept = 0
    /\ termRemain = 0
    /\ termIn = "none"
    /\ termSteps = 0
    /\ restarts = 0
    /\ crashPending = {}
    /\ crashDay = None
    /\ prevFired = None
    /\ firedEver = None
    /\ env = Healthy(cfg)
    /\ outcome = "none"
    /\ appended = FALSE
    /\ genDay = None
    /\ fireDay = None
    /\ fireCount = None

\* the values a call of datetime.now() can return: the clock does not go back
Reads == { t \in clock .. clock + MaxLag : t <= MaxTime }

\* the clock after a time.sleep(d): at least d later
Wakes(d) == { t \in clock + d .. clock + d + MaxLag : t <= MaxTime }

\* history of a step of the process that sleeps sl ticks in a sleep loop
TermHist(sl) ==
    /\ termSlept' = IF should_terminate THEN termSlept + sl ELSE termSlept
    /\ termSteps' = IF should_terminate /\ termIn # "none" THEN termSteps + 1 ELSE termSteps
    /\ UNCHANGED <<termRemain, termIn>>

\* ---------------------------------------------------------------- startup
\* lines 299-311: load the state and compare its date with today's
Start ==
    /\ pc = "init"
    /\ \E t \in Reads :
         LET state == read_state(disk)
         IN /\ clock' = t
            /\ state_date' = state.date
            /\ scheduled_times' = state.times
            /\ pc' = IF ~state.dict THEN "fatal"
                     ELSE IF state.date # today_str(t) THEN "resched" ELSE "resume"
    /\ TermHist(0)
    /\ UNCHANGED <<cfg, disk, now, nxt, slept, should_terminate, lastFired, observed,
                   restarts, crashPending, crashDay, prevFired, firedEver,
                   env, outcome, appended, genDay, fireDay, fireCount>>

\* line 312: scheduled_times = refresh_schedule()
StartGenerate ==
    /\ pc = "resched"
    /\ \E t \in Reads :
         /\ clock' = t
         /\ \E ts \in generate_schedule_for_today(t, cfg) : scheduled_times' = ts
         /\ genDay' = today_str(t)
    /\ pc' = "resched_save"
    /\ TermHist(0)
    /\ UNCHANGED <<cfg, disk, state_date, now, nxt, slept, should_terminate, lastFired,
                   observed, restarts, crashPending, crashDay, prevFired, firedEver,
                   env, outcome, appended, fireDay, fireCount>>

\* lines 313-315: state = {"date": today_str(), ...}; write_state(state)
StartSave ==
    /\ pc = "resched_save"
    /\ \E t \in Reads :
         /\ clock' = t
         /\ state_date' = today_str(t)
         /\ disk' \in WriteOutcomes(today_str(t), scheduled_times)
    /\ pc' = "loop"
    /\ TermHist(0)
    /\ UNCHANGED <<cfg, scheduled_times, now, nxt, slept, should_terminate, lastFired,
                   observed, restarts, crashPending, crashDay, prevFired, firedEver,
                   env, outcome, appended, genDay, fireDay, fireCount>>

\* lines 316-322: purge the past times of the loaded state and persist
Resume ==
    /\ pc = "resume"
    /\ \E t \in Reads :
         /\ clock' = t
         /\ IF \E i \in DOMAIN scheduled_times : scheduled_times[i] = Malformed
            THEN /\ pc' = "fatal"
                 /\ UNCHANGED <<scheduled_times, disk>>
            ELSE /\ scheduled_times' = PurgePast(scheduled_times, t)
                 /\ disk' \in WriteOutcomes(state_date, PurgePast(scheduled_times, t))
                 /\ pc' = "loop"
    /\ TermHist(0)
    /\ UNCHANGED <<cfg, state_date, now, nxt, slept, should_terminate, lastFired,
                   observed, restarts, crashPending, crashDay, prevFired, firedEver,
                   env, outcome, appended, genDay, fireDay, fireCount>>

\* ------------------------------------------------------------------- loop
\* lines 324-327 and 376: the loop condition, `now`, the date check
LoopTop ==
    /\ pc = "loop"
    /\ IF should_terminate
       THEN /\ pc' = "done"
            /\ observed' = TRUE
            /\ UNCHANGED <<clock, now>>
       ELSE /\ \E t \in Reads :
                 /\ clock' = t
                 /\ now' = t
                 /\ pc' = IF today_str(t) # state_date THEN "regen" ELSE "pick"
            /\ UNCHANGED observed
    /\ crashPending' = {}
    /\ crashDay' = None
    /\ prevFired' = None
    /\ TermHist(0)
    /\ UNCHANGED <<cfg, disk, state_date, scheduled_times, nxt, slept, should_terminate,
                   lastFired, restarts, firedEver,
                   env, outcome, appended, genDay, fireDay, fireCount>>

\* mutant of Regen: the new schedule is appended to the old list
RegenMerge ==
    /\ pc = "regen"
    /\ \E t \in Reads :
         /\ clock' = t
         /\ \E ts \in generate_schedule_for_today(t, cfg) :
              /\ scheduled_times' = scheduled_times \o ts
              /\ disk' \in WriteOutcomes(today_str(now), scheduled_times \o ts)
         /\ genDay' = today_str(t)
    /\ state_date' = today_str(now)
    /\ pc' = "pick"
    /\ TermHist(0)
    /\ UNCHANGED <<cfg, now, nxt, slept, should_terminate, lastFired, observed,
                   restarts, crashPending, crashDay, prevFired, firedEver,
                   env, outcome, appended, fireDay, fireCount>>

\* lines 328-331: regenerate for the new day and persist
Regen ==
    /\ pc = "regen"
    /\ \E t \in Reads :
         /\ clock' = t
         /\ \E ts \in generate_schedule_for_today(t, cfg) :
              /\ scheduled_times' = ts
              /\ disk' \in WriteOutcomes(today_str(now), ts)
         /\ genDay' = today_str(t)
    /\ state_date' = today_str(now)
    /\ pc' = "pick"
    /\ TermHist(0)
    /\ UNCHANGED <<cfg, now, nxt, slept, should_terminate, lastFired, observed,
                   restarts, crashPending, crashDay, prevFired, firedEver,
                   env, outcome, appended, fireDay, fireCount>>

\* mutant of Pick: the list is read back from the state file
PickFromDisk ==
    /\ pc = "pick"
    /\ \E t \in Reads :
         /\ clock' = t
         /\ nxt' = next_scheduled_time(read_state(disk).times, t)
         /\ pc' = IF next_scheduled_time(read_state(disk).times, t) = None THEN "idle" ELSE "event"
    /\ slept' = 0
    /\ TermHist(0)
    /\ UNCHANGED <<cfg, disk, state_date, scheduled_times, now, should_terminate,
                   lastFired, observed, restarts, crashPending, crashDay, prevFired, firedEver,
                   env, outcome, appended, genDay, fireDay, fireCount>>

\* lines 333-338 and 347-350: pick the next due time and choose the sleep
Pick ==
    /\ pc = "pick"
    /\ \E t \in Reads :
         /\ clock' = t
         /\ nxt' = next_scheduled_time(scheduled_times, t)
         /\ pc' = IF next_scheduled_time(scheduled_times, t) = None THEN "idle" ELSE "event"
    /\ slept' = 0
    /\ TermHist(0)
    /\ UNCHANGED <<cfg, disk, state_date, scheduled_times, now, should_terminate,
                   lastFired, observed, restarts, crashPending, crashDay, prevFired, firedEver,
                   env, outcome, appended, genDay, fireDay, fireCount>>

\* mutant of IdleCheck: `while slept < sleep_seconds`, the flag is not polled
IdleCheckNoPoll ==
    /\ pc = "idle"
    /\ pc' = IF slept < IdleSleepSeconds(now, cfg) THEN "idle_sleeping" ELSE "loop"
    /\ observed' = observed
    /\ slept' = IF slept < IdleSleepSeconds(now, cfg) THEN slept ELSE 0
    /\ TermHist(0)
    /\ UNCHANGED <<clock, cfg, disk, state_date, scheduled_times, now, nxt,
                   should_terminate, lastFired, restarts, crashPending, crashDay,
                   prevFired, firedEver,
                   env, outcome, appended, genDay, fireDay, fireCount>>

\* line 341 and 344: the condition of the idle sleep loop, then `continue`
IdleCheck ==
    /\ pc = "idle"
    /\ pc' = IF slept < IdleSleepSeconds(now, cfg) /\ ~should_terminate
             THEN "idle_sleeping" ELSE "loop"
    /\ observed' = (observed \/ should_terminate)
    /\ slept' = IF slept < IdleSleepSeconds(now, cfg) /\ ~should_terminate THEN slept ELSE 0
    /\ TermHist(0)
    /\ UNCHANGED <<clock, cfg, disk, state_date, scheduled_times, now, nxt,
                   should_terminate, lastFired, restarts, crashPending, crashDay, prevFired, firedEver,
                   env, outcome, appended, genDay, fireDay, fireCount>>

\* lines 342-343: one increment of the idle sleep
IdleSleep ==
    /\ pc = "idle_sleeping"
    /\ LET step == Min(IdleChunk, IdleSleepSeconds(now, cfg) - slept)
       IN /\ \E t \in Wakes(step) : clock' = t
          /\ slept' = slept + step
          /\ TermHist(step)
    /\ pc' = "idle"
    /\ UNCHANGED <<cfg, disk, state_date, scheduled_times, now, nxt, should_terminate,
                   lastFired, observed, restarts, crashPending, crashDay, prevFired, firedEver,
                   env, outcome, appended, genDay, fireDay, fireCount>>

\* mutant of EventCheck: the `if killer.should_terminate: break` of lines
\* 356-357 is missing, the loop fires when its sleep loop ends
EventCheckNoBreak ==
    /\ pc = "event"
    /\ pc' = IF EventDelta > 0 /\ slept < EventDelta /\ ~should_terminate
             THEN "event_sleeping" ELSE "fire"
    /\ observed' = (observed \/ should_terminate)
    /\ slept' = IF EventDelta > 0 /\ slept < EventDelta /\ ~should_terminate THEN slept ELSE 0
    /\ TermHist(0)
    /\ UNCHANGED <<clock, cfg, disk, state_date, scheduled_times, now, nxt,
                   should_terminate, lastFired, restarts, crashPending, crashDay,
                   prevFired, firedEver,
                   env, outcome, appended, genDay, fireDay, fireCount>>

\* lines 348, 351 and 356-357: the condition of the event sleep loop, then
\* the check before firing
EventCheck ==
    /\ pc = "event"
    /\ pc' = IF EventDelta > 0 /\ slept < EventDelta /\ ~should_terminate
             THEN "event_sleeping"
             ELSE IF should_terminate THEN "done" ELSE "fire"
    /\ observed' = (observed \/ should_terminate)
    /\ slept' = IF EventDelta > 0 /\ slept < EventDelta /\ ~should_terminate THEN slept ELSE 0
    /\ TermHist(0)
    /\ UNCHANGED <<clock, cfg, disk, state_date, scheduled_times, now, nxt,
                   should_terminate, lastFired, restarts, crashPending, crashDay, prevFired, firedEver,
                   env, outcome, appended, genDay, fireDay, fireCount>>

\* lines 352-354: one increment of the event sleep
EventSleep ==
    /\ pc = "event_sleeping"
    /\ LET step == Min(EventChunk, EventDelta - slept)
       IN /\ \E t \in Wakes(step) : clock' = t
          /\ slept' = slept + step
          /\ TermHist(step)
    /\ pc' = "event"
    /\ UNCHANGED <<cfg, disk, state_date, scheduled_times, now, nxt, should_terminate,
                   lastFired, observed, restarts, crashPending, crashDay, prevFired, firedEver,
                   env, outcome, appended, genDay, fireDay, fireCount>>

\* lines 360-366: the side effect (append_activity_line, perform_commit);
\* an outcome that leaves main() ends the process with status 1
Fire ==
    /\ pc = "fire"
    /\ \E t \in Reads :
         /\ clock' = t
         /\ fireDay' = IF fireCount = None THEN fireDay ELSE today_str(t)
         /\ fireCount' = IF fireCount = None THEN fireCount
                         ELSE IF fireDay = today_str(t) THEN fireCount + 1 ELSE 1
    /\ \E o \in SideEffect(env) :
         /\ outcome' = o
         /\ appended' = (appended \/ o # "append_error")
         /\ pc' = IF o \in Leaves THEN "fatal" ELSE "remove"
    /\ prevFired' = lastFired
    /\ lastFired' = nxt
    /\ firedEver' = nxt
    /\ TermHist(0)
    /\ UNCHANGED <<cfg, disk, state_date, scheduled_times, now, nxt, slept,
                   should_terminate, observed, restarts, crashPending, crashDay,
                   env, genDay>>

\* mutant of Remove: line 371 is missing, the removal stays in memory
RemoveNoPersist ==
    /\ pc = "remove"
    /\ scheduled_times' = RemoveUsed(scheduled_times, isoformat(nxt))
    /\ pc' = "pause"
    /\ TermHist(0)
    /\ UNCHANGED <<clock, cfg, disk, state_date, now, nxt, slept, should_terminate, lastFired,
                   observed, restarts, crashPending, crashDay, prevFired, firedEver,
                   env, outcome, appended, genDay, fireDay, fireCount>>

\* lines 369-371: remove the used time by value and persist
Remove ==
    /\ pc = "remove"
    /\ scheduled_times' = RemoveUsed(scheduled_times, isoformat(nxt))
    /\ disk' \in WriteOutcomes(state_date, RemoveUsed(scheduled_times, isoformat(nxt)))
    /\ pc' = "pause"
    /\ TermHist(0)
    /\ UNCHANGED <<clock, cfg, state_date, now, nxt, slept, should_terminate, lastFired,
                   observed, restarts, crashPending, crashDay, prevFired, firedEver,
                   env, outcome, appended, genDay, fireDay, fireCount>>

\* line 374: time.sleep(2)
PauseSleep ==
    /\ pc = "pause"
    /\ \E t \in Wakes(Pause) : clock' = t
    /\ pc' = "loop"
    /\ nxt' = None
    /\ outcome' = "none"
    /\ TermHist(0)
    /\ UNCHANGED <<cfg, disk, state_date, scheduled_times, now, slept, should_terminate,
                   lastFired, observed, restarts, crashPending, crashDay, prevFired, firedEver,
                   env, appended, genDay, fireDay, fireCount>>

\* ------------------------------------------------------------ environment
\* the positions before line 296 installs the handlers
BootPcs == {"boot", "ensure", "identity", "now"}

SleepRemaining ==
    IF pc \in {"idle", "idle_sleeping"} THEN IdleSleepSeconds(now, cfg) - slept
    ELSE IF pc \in {"event", "event_sleeping"} THEN EventDelta - slept
    ELSE 0

\* GracefulKiller._handler: SIGINT or SIGTERM sets the flag
Signal ==
    /\ pc \notin {"done", "down", "fatal"} \cup BootPcs
    /\ ~should_terminate
    /\ should_terminate' = TRUE
    /\ termIn' = IF pc \in {"idle", "idle_sleeping"} THEN "idle"
                 ELSE IF pc \in {"event", "event_sleeping"} THEN "event" ELSE "none"
    /\ termRemain' = SleepRemaining
    /\ termSlept' = 0
    /\ termSteps' = 0
    /\ UNCHANGED <<clock, pc, cfg, disk, state_date, scheduled_times, now, nxt, slept,
                   lastFired, observed, restarts, crashPending, crashDay, prevFired, firedEver,
                   env, outcome, appended, genDay, fireDay, fireCount>>

LoopPcs == {"loop", "regen", "pick", "idle", "idle_sleeping", "event", "event_sleeping",
            "fire", "remove", "pause"}

\* the positions whose step is inside write_state's open(path, "w") ... json.dump
WritePcs == {"resched_save", "resume", "regen", "remove"}

\* the process is killed (or the machine stops): memory is lost, the file stays;
\* a kill inside write_state leaves the file truncated by open(path, "w")
Crash ==
    /\ pc \notin {"done", "down", "fatal"}
    /\ pc' = "down"
    /\ \/ UNCHANGED disk
       \/ /\ pc \in WritePcs
          /\ disk' = Torn
    /\ crashPending' = IF pc \in LoopPcs
                       THEN { fromisoformat(scheduled_times[i]) : i \in DOMAIN scheduled_times }
                       ELSE {}
    /\ crashDay' = IF pc \in LoopPcs THEN today_str(clock) ELSE None
    /\ state_date' = None
    /\ scheduled_times' = <<>>
    /\ now' = 0
    /\ nxt' = None
    /\ slept' = 0
    /\ should_terminate' = FALSE
    /\ outcome' = "none"
    /\ UNCHANGED <<clock, cfg, lastFired, observed, termSlept, termRemain, termIn,
                   termSteps, restarts, prevFired, firedEver,
                   env, appended, genDay, fireDay, fireCount>>

\* the daemon is started again (by hand or by its supervisor)
Restart ==
    /\ pc \in {"done", "down"}
    /\ restarts < MaxRestarts
    /\ restarts' = restarts + 1
    /\ \E t \in Reads : clock' = t
    /\ pc' = "init"
    /\ state_date' = None
    /\ scheduled_times' = <<>>
    /\ now' = 0
    /\ nxt' = None
    /\ slept' = 0
    /\ should_terminate' = FALSE
    /\ lastFired' = None
    /\ prevFired' = None
    /\ observed' = FALSE
    /\ termSlept' = 0
    /\ termRemain' = 0
    /\ termIn' = "none"
    /\ termSteps' = 0
    /\ outcome' = "none"
    /\ UNCHANGED <<cfg, disk, crashPending, crashDay, firedEver,
                   env, appended, genDay, fireDay, fireCount>>

Next ==
    \/ Start
    \/ StartGenerate
    \/ StartSave
    \/ Resume
    \/ LoopTop
    \/ Regen
    \/ Pick
    \/ IdleCheck
    \/ IdleSleep
    \/ EventCheck
    \/ EventSleep
    \/ Fire
    \/ Remove
    \/ PauseSleep
    \/ Signal
    \/ Crash
    \/ Restart

Spec == Init /\ [][Next]_vars

\* ------------------------------------------------- the start of main()
\* what the startup leaves alone
loopVars == <<clock, disk, state_date, scheduled_times, now, nxt, slept, should_terminate,
              lastFired, observed, termSlept, termRemain, termIn, termSteps, restarts,
              crashPending, crashDay, prevFired, firedEver, env, genDay, fireDay, fireCount>>

\* line 279: config = read_config()
ReadConfig ==
    /\ pc = "boot"
    /\ IF ConfigError(env)
       THEN /\ pc' = "fatal"
            /\ cfg' = cfg
       ELSE /\ pc' = "ensure"
            /\ cfg' = read_config(env)
    /\ UNCHANGED <<loopVars, outcome, appended>>

\* line 282: ensure_git_repo(repo_path)
EnsureGitRepo ==
    /\ pc = "ensure"
    /\ pc' = IF env.REPO_PATH # "/repo" THEN "fatal" ELSE "identity"
    /\ UNCHANGED <<loopVars, cfg, outcome, appended>>

\* lines 283 and 285: maybe_set_git_identity runs git only when both USER_NAME
\* and USER_EMAIL are set; then the --now flag is looked at
MaybeSetGitIdentity ==
    /\ pc = "identity"
    /\ pc' = IF env.identity /\ GitNotFound(env) THEN "fatal"
             ELSE IF env.now THEN "now" ELSE "init"
    /\ UNCHANGED <<loopVars, cfg, outcome, appended>>

\* lines 286-294: the immediate commit of --now
RunNow ==
    /\ pc = "now"
    /\ \E o \in SideEffect(env) :
         /\ outcome' = o
         /\ appended' = (appended \/ o # "append_error")
         /\ pc' = IF o \in Leaves THEN "fatal" ELSE "done"
    /\ UNCHANGED <<loopVars, cfg>>

\* the memory and the histories of a process that has not run yet
Unstarted ==
    /\ state_date = None
    /\ scheduled_times = <<>>
    /\ now = 0
    /\ nxt = None
    /\ slept = 0
    /\ should_terminate = FALSE
    /\ lastFired = None
    /\ observed = FALSE
    /\ termSlept = 0
    /\ termRemain = 0
    /\ termIn = "none"
    /\ termSteps = 0
    /\ restarts = 0
    /\ crashPending = {}
    /\ crashDay = None
    /\ prevFired = None
    /\ firedEver = None
    /\ outcome = "none"
    /\ appended = FALSE
    /\ genDay = None
    /\ fireDay = None
    /\ fireCount = None

\* a state file an earlier run of day 0 left: one entry, the day's first second
StaleFile == Stored(0, <<isoformat(0)>>)

\* the process is started in any environment, with no state file or a stale one
InitEnv ==
    /\ clock \in 0 .. DayLen - 1
    /\ pc = "boot"
    /\ env \in Environments
    /\ cfg = None
    /\ disk \in {Missing, StaleFile}
    /\ Unstarted

\* the daemon of one run: the loop and the signal, no kill and no restart
Daemon ==
    \/ Start
    \/ StartGenerate
    \/ StartSave
    \/ Resume
    \/ LoopTop
    \/ Regen
    \/ Pick
    \/ IdleCheck
    \/ IdleSleep
    \/ EventCheck
    \/ EventSleep
    \/ Fire
    \/ Remove
    \/ PauseSleep
    \/ Signal

NextEnv ==
    \/ ReadConfig
    \/ EnsureGitRepo
    \/ MaybeSetGitIdentity
    \/ RunNow
    \/ Daemon

SpecEnv == InitEnv /\ [][NextEnv]_vars

\* the entries and the lists a state file left by anyone can hold
FileEntries == {Malformed} \cup { isoformat(t) : t \in 0 .. DayLen - 1 }

FileLists ==
    {<<>>} \cup { <<a>> : a \in FileEntries } \cup { <<a, b>> : a, b \in FileEntries }

FileContents ==
    {Missing, Unreadable, Torn, NonObject}
        \cup { Stored(d, ts) : d \in {None} \cup 0 .. MaxDays - 1, ts \in FileLists }

\* the daemon is started with a valid configuration over any state file
InitLoad ==
    /\ clock \in 0 .. DayLen - 1
    /\ pc = "init"
    /\ cfg \in ValidConfigs
    /\ env = Healthy(cfg)
    /\ disk \in FileContents
    /\ Unstarted

SpecLoad == InitLoad /\ [][Daemon]_vars

\* the daemon is started where writes of the state file can fail
InitSave ==
    /\ clock \in 0 .. DayLen - 1
    /\ pc = "init"
    /\ cfg \in ValidConfigs
    /\ env = [Healthy(cfg) EXCEPT !.faults = {"state_file"}]
    /\ disk \in {Missing, StaleFile}
    /\ Unstarted

SpecSave == InitSave /\ [][Daemon]_vars

\* the daemon and its restarts as in Spec, with the firings of each date counted
InitDays ==
    /\ clock \in 0 .. DayLen - 1
    /\ pc = "init"
    /\ cfg \in ValidConfigs
    /\ env = Healthy(cfg)
    /\ disk = Missing
    /\ state_date = None
    /\ scheduled_times = <<>>
    /\ now = 0
    /\ nxt = None
    /\ slept = 0
    /\ should_terminate = FALSE
    /\ lastFired = None
    /\ observed = FALSE
    /\ termSlept = 0
    /\ termRemain = 0
    /\ termIn = "none"
    /\ termSteps = 0
    /\ restarts = 0
    /\ crashPending = {}
    /\ crashDay = None
    /\ prevFired = None
    /\ firedEver = None
    /\ outcome = "none"
    /\ appended = FALSE
    /\ genDay = None
    /\ fireDay = None
    /\ fireCount = 0

\* the process is killed outside write_state: memory is lost, the file stays
\* whole (every write that was started has ended)
Kill ==
    /\ pc \notin {"done", "down", "fatal"}
    /\ pc' = "down"
    /\ crashPending' = IF pc \in LoopPcs
                       THEN { fromisoformat(scheduled_times[i]) : i \in DOMAIN scheduled_times }
                       ELSE {}
    /\ crashDay' = IF pc \in LoopPcs THEN today_str(clock) ELSE None
    /\ state_date' = None
    /\ scheduled_times' = <<>>
    /\ now' = 0
    /\ nxt' = None
    /\ slept' = 0
    /\ should_terminate' = FALSE
    /\ outcome' = "none"
    /\ UNCHANGED <<clock, cfg, disk, lastFired, observed, termSlept, termRemain, termIn,
                   termSteps, restarts, prevFired, firedEver,
                   env, appended, genDay, fireDay, fireCount>>

NextDays ==
    \/ Daemon
    \/ Kill
    \/ Restart

SpecDays == InitDays /\ [][NextDays]_vars


\* ------------------------------------------------------------- properties
Range(s) == { s[i] : i \in DOMAIN s }

Ticks(s) == { fromisoformat(s[i]) : i \in DOMAIN s }

StrictlyAscending(s) ==
    \A i, j \in DOMAIN s : i < j => fromisoformat(s[i]) < fromisoformat(s[j])

DropIndex(s, i) == SubSeq(s, 1, i - 1) \o SubSeq(s, i + 1, Len(s))

FireStep   == pc = "fire" /\ pc' = "remove"
RemoveStep == pc = "remove" /\ pc' = "pause"
ResumeStep == pc = "resume" /\ pc' = "loop"
RegenStep  == pc = "regen" /\ pc' = "pick"
StartSaveStep == pc = "resched_save" /\ pc' = "loop"

\* C1: within one run the timestamps consumed by consecutive firings strictly
\* increase (also across a day rollover and after a resume), and when a firing
\* is about to start the previous firing's timestamp has already been removed
\* from the pending list in memory and on disk.
C1_FiringOrder ==
    /\ prevFired # None => prevFired < lastFired
    /\ (pc = "fire" /\ lastFired # None) =>
          /\ lastFired < nxt
          /\ isoformat(lastFired) \notin Range(scheduled_times)
          /\ disk.kind = "ok"
          /\ isoformat(lastFired) \notin Range(disk.times)

\* two firings of one run, the second on the day after the first
C1_Witness ==
    /\ pc = "remove"
    /\ prevFired # None
    /\ today_str(prevFired) < today_str(lastFired)

\* C2: the step after the side effect deletes exactly the fired timestamp: the
\* persisted list after it is the persisted list before it without that one
\* entry, the other entries keep their order, the stored date is unchanged.
C2_Consumption ==
    [][RemoveStep =>
          /\ disk.kind = "ok"
          /\ disk.times = scheduled_times
          /\ \E i \in DOMAIN scheduled_times :
                /\ scheduled_times[i] = isoformat(nxt)
                /\ disk' = Stored(disk.date, DropIndex(disk.times, i))
                /\ scheduled_times' = DropIndex(scheduled_times, i)]_vars

\* a firing consumed the later of two entries and the earlier one stayed
C2_Witness ==
    /\ pc = "pause"
    /\ scheduled_times # <<>>
    /\ fromisoformat(scheduled_times[1]) < lastFired
    /\ disk = Stored(state_date, scheduled_times)

\* C3: when the date of the state differs from today's, at startup or at the
\* start of an iteration, the state is replaced by a freshly generated schedule
\* (every entry later than the clock the generator read, at most max_commits
\* of them) dated today and written to disk; while a next-due time is computed,
\* slept for or fired, the state's date is the iteration's date and the disk
\* holds the state.
C3_InLoop ==
    pc \in {"pick", "idle", "idle_sleeping", "event", "event_sleeping", "fire"} =>
        /\ state_date = today_str(now)
        /\ disk = Stored(state_date, scheduled_times)

C3_Replace ==
    /\ (pc = "init" /\ pc' = "resched") => read_state(disk).date # today_str(clock')
    /\ (pc = "loop" /\ pc' = "regen") => state_date # today_str(now')
    /\ RegenStep =>
          /\ state_date' = today_str(now)
          /\ state_date' # state_date
          /\ disk' = Stored(state_date', scheduled_times')
          /\ \A e \in Ticks(scheduled_times') : e > clock'
          /\ Len(scheduled_times') <= cfg.max_commits
          /\ nxt' = None
    /\ StartSaveStep =>
          /\ state_date' = today_str(clock')
          /\ disk' = Stored(state_date', scheduled_times')
          /\ \A e \in Ticks(scheduled_times') : e > clock
          /\ Len(scheduled_times') <= cfg.max_commits

C3_DayRollover == [](C3_InLoop) /\ [][C3_Replace]_vars

\* the loop fired on day 0 and now holds a fresh schedule dated day 1
C3_Witness ==
    /\ pc = "pick"
    /\ restarts = 0
    /\ lastFired # None
    /\ today_str(lastFired) = 0
    /\ state_date = 1
    /\ scheduled_times # <<>>
    /\ disk = Stored(1, scheduled_times)

\* C4: on a start with a state dated today, the list the daemon continues
\* with, and writes, is the persisted list restricted to the timestamps
\* strictly after the current time, in the same order.
C4_ResumePurge ==
    [][ResumeStep =>
          LET IsFuture(e) == fromisoformat(e) > clock'
          IN /\ disk.kind = "ok"
             /\ disk.date = today_str(clock)
             /\ scheduled_times' = SelectSeq(disk.times, IsFuture)
             /\ disk' = Stored(disk.date, scheduled_times')]_vars

\* a resume after a crash in the loop dropped a stale entry and kept a future one
C4_Witness ==
    /\ pc = "loop"
    /\ crashDay = today_str(clock)
    /\ disk.kind = "ok"
    /\ Ticks(disk.times) \subseteq crashPending
    /\ \E e \in crashPending : e <= clock
    /\ \E e \in Ticks(scheduled_times) : e > clock

\* C5: a crash anywhere in the loop followed by a restart on the same day
\* neither repeats a side effect (every firing consumes a timestamp later than
\* all that the firings of any run consumed before) nor loses work (every timestamp pending at the crash
\* and still in the future when the restarted daemon enters its loop is
\* pending again).
C5_Pending ==
    (pc = "loop" /\ crashDay # None /\ crashDay = today_str(clock)) =>
        \A ts \in crashPending : ts > clock => isoformat(ts) \in Range(scheduled_times)

C5_NoRefire == FireStep => (firedEver # None => nxt > firedEver)

C5_RestartSafe == [](C5_Pending) /\ [][C5_NoRefire]_vars

\* C6: when the flag is set inside the idle or the event sleep loop, the
\* increments that end afterwards add up to at most one increment (IdleChunk
\* in the idle sleep, EventChunk in the event sleep) and to no more than the
\* sleep that was left, and the process is terminated after at most three of
\* its steps (the end of the increment, the sleep loop's check, the loop
\* condition).
C6_CancellationLatency ==
    /\ termIn = "idle" => termSlept <= Min(IdleChunk, termRemain)
    /\ termIn = "event" => termSlept <= Min(EventChunk, termRemain)
    /\ termIn # "none" =>
          /\ termSteps <= 3
          /\ termSteps = 3 => pc \in {"done", "down"}
          /\ (should_terminate /\ pc \notin {"done", "down"}) =>
                \/ pc \in {"idle_sleeping", "event_sleeping"} /\ termSteps = 0
                \/ pc \in {"idle", "event"} /\ termSteps <= 1
                \/ pc = "loop" /\ termSteps \in {1, 2}

\* the flag was set in the idle sleep with more than one increment left, and
\* the process ended after the one running increment
C6_Witness ==
    /\ pc = "done"
    /\ termIn = "idle"
    /\ termRemain > IdleChunk
    /\ termSlept = IdleChunk
    /\ termSteps = 3

\* C7: after a check has read the flag as set, the run only leaves its sleep
\* loop and ends: no side effect, no write of the state; and the running
\* process never clears the flag.
C7_Step ==
    /\ (observed /\ pc \notin {"done", "down"}) =>
          /\ pc' \in {"loop", "done", "down"}
          /\ disk' = disk
          /\ firedEver' = firedEver
          /\ scheduled_times' = scheduled_times \/ pc' = "down"
    /\ (should_terminate /\ pc \notin {"done", "down"} /\ pc' # "down") => should_terminate'

C7_CleanExit == [][C7_Step]_vars

\* the flag was read at the check before firing: the due event was not fired
C7_Witness ==
    /\ pc = "done"
    /\ observed
    /\ termIn = "event"
    /\ nxt # None
    /\ nxt # firedEver
    /\ isoformat(nxt) \in Range(scheduled_times)

\* the window the generator used when it read clock t
WindowStart(t) == replace_hour(t, cfg.start_hour)
WindowEnd(t)   == replace_hour(t, cfg.end_hour)

\* C8: right after the generator ran (startup, line 312), for every valid
\* configuration and every time of day: every timestamp it returned is in
\* [window_start, window_end) of that day and strictly after the clock it
\* read, and there are at most max_commits of them.
C8_GeneratorBounds ==
    pc = "resched_save" =>
        /\ \A e \in Ticks(scheduled_times) :
              /\ WindowStart(clock) <= e
              /\ e < WindowEnd(clock)
              /\ e > clock
        /\ Len(scheduled_times) <= cfg.max_commits

\* generated inside the window: two timestamps survive
C8_Witness ==
    /\ pc = "resched_save"
    /\ clock > WindowStart(clock)
    /\ Len(scheduled_times) = 2
    /\ cfg.max_commits = 2

\* C9 as stated: with min_commits >= 1 and the clock before the window end
\* minus a trivial margin (inside the window included), the generator returns
\* at least one timestamp.
C9_NonEmptyBeforeEnd ==
    (pc = "resched_save" /\ cfg.min_commits >= 1 /\ clock < WindowEnd(clock) - TrivialMargin)
        => Len(scheduled_times) >= 1

\* C9 amended: with min_commits >= 1 and the clock before the window start,
\* the generator returns at least one timestamp.
C9_NonEmptyBeforeStart ==
    (pc = "resched_save" /\ cfg.min_commits >= 1 /\ clock < WindowStart(clock))
        => Len(scheduled_times) >= 1

C9_Witness ==
    /\ pc = "resched_save"
    /\ cfg.min_commits >= 1
    /\ clock < WindowStart(clock)
    /\ Len(scheduled_times) >= 1

\* C10: the pending list is strictly ascending (sorted, no duplicates), in
\* memory and on disk, after generation and after every purge and consumption.
C10_StrictlyAscending ==
    /\ StrictlyAscending(scheduled_times)
    /\ disk.kind = "ok" => StrictlyAscending(disk.times)

\* a resume kept two generated timestamps
C10_Witness ==
    /\ pc = "loop"
    /\ restarts >= 1
    /\ crashDay = today_str(clock)
    /\ Len(scheduled_times) = 2
    /\ disk = Stored(state_date, scheduled_times)

StartGenerateStep == pc = "resched" /\ pc' = "resched_save"

\* (now + timedelta(days=1)).replace(hour=start_hour, ...) of line 336
NextWindowStart(t) == replace_hour(t + DayLen, cfg.start_hour)

\* C11: when the generator reads a clock after the day's window end, at
\* startup or in the loop, it returns the empty list (and the loop persists
\* it); with an empty list the loop picks nothing and goes to the idle sleep;
\* an idle sleep that is not cancelled ends at or after the window start of
\* the day after the iteration's; an empty list fires nothing and stays empty
\* until the loop regenerates.
C11_Step ==
    /\ (StartGenerateStep /\ clock' > WindowEnd(clock')) => scheduled_times' = <<>>
    /\ (RegenStep /\ clock' > WindowEnd(clock')) =>
          /\ scheduled_times' = <<>>
          /\ disk' = Stored(state_date', <<>>)
    /\ (pc = "pick" /\ scheduled_times = <<>> /\ pc' # pc) =>
          /\ pc' \in {"idle", "down"}
          /\ nxt' = None
    /\ (pc = "idle" /\ pc' = "loop" /\ ~should_terminate) => clock' >= NextWindowStart(now)
    /\ (pc \in LoopPcs /\ scheduled_times = <<>>) =>
          /\ pc' # "fire"
          /\ scheduled_times' # <<>> => pc = "regen"

C12_Step ==
    /\ (pc = "fire" /\ pc' # pc /\ outcome' # "git_missing") => pc' = "remove"
    /\ (pc = "remove" /\ pc' # pc) =>
          /\ pc' = "pause"
          /\ isoformat(nxt) \notin Range(scheduled_times')
          /\ disk' = Stored(state_date, scheduled_times')
    /\ (pc = "pause" /\ pc' # pc) => pc' = "loop"
    /\ (pc = "fire" /\ pc' # pc /\ firedEver # None) => nxt > firedEver

C12_SideEffectFailSoft == [][C12_Step]_vars

\* the environments of a fatal configuration error: a setting is invalid or
\* missing, REPO_PATH is no repository, or there is no git executable
FatalEnvironment(e) == ConfigError(e) \/ e.REPO_PATH # "/repo" \/ GitNotFound(e)

\* C13: in an environment with a fatal configuration error the process does
\* no partial work: it never appends an activity line, never runs the side
\* effect's git commands, never writes the state file, and it does not end
\* with status 0.
C13_NoPartialWork ==
    FatalEnvironment(env) =>
        /\ ~appended
        /\ outcome = "none"
        /\ disk \in {Missing, StaleFile}
        /\ pc # "done"

\* C14: whatever the state file holds when the daemon starts, the startup
\* does not end in a fatal error, and the loop runs on a list that holds no
\* malformed entry.
C14_LoadFailSoft ==
    /\ pc # "fatal"
    /\ pc \in LoopPcs => Malformed \notin Range(scheduled_times)

\* the pending times in memory after t, and the least element of a set
MemFuture(t) == { e \in Ticks(scheduled_times) : e > t }

MinOf(S) == CHOOSE x \in S : \A y \in S : x <= y

\* C15: where writes of the state file can fail (the file stays as it was, or
\* is cut short), the process never ends in a fatal error and every step does
\* to the memory what it does when the write succeeds, whatever the file
\* holds: the steps that write move on with the list and the date they tried
\* to write, the date check compares the date in memory, the next due time is
\* the first future entry of the list in memory, and the firing is followed by
\* the removal of its timestamp from that list.
C15_Step ==
    /\ pc' # "fatal"
    /\ (pc = "resched_save" /\ pc' # pc) =>
          /\ pc' = "loop"
          /\ scheduled_times' = scheduled_times
          /\ state_date' = today_str(clock')
    /\ (pc = "resume" /\ pc' # pc) =>
          LET IsFuture(e) == fromisoformat(e) > clock'
          IN /\ pc' = "loop"
             /\ state_date' = state_date
             /\ scheduled_times' = SelectSeq(scheduled_times, IsFuture)
    /\ (pc = "regen" /\ pc' # pc) =>
          /\ pc' = "pick"
          /\ state_date' = today_str(now)
          /\ \A e \in Ticks(scheduled_times') : e > clock'
    /\ (pc = "loop" /\ pc' \notin {"loop", "done"}) =>
          pc' = (IF state_date # today_str(now') THEN "regen" ELSE "pick")
    /\ (pc = "pick" /\ pc' # pc) =>
          /\ nxt' = (IF MemFuture(clock') = {} THEN None ELSE MinOf(MemFuture(clock')))
          /\ pc' = (IF MemFuture(clock') = {} THEN "idle" ELSE "event")
    /\ (pc = "fire" /\ pc' # pc) =>
          /\ pc' = "remove"
          /\ isoformat(nxt) \in Range(scheduled_times)
    /\ (pc = "remove" /\ pc' # pc) =>
          /\ pc' = "pause"
          /\ state_date' = state_date
          /\ \E i \in DOMAIN scheduled_times :
                /\ scheduled_times[i] = isoformat(nxt)
                /\ scheduled_times' = DropIndex(scheduled_times, i)

C15_SaveFailSoft == [][C15_Step]_vars

\* no write has succeeded since the start, and the run has fired twice and
\* removed both timestamps from its list
C15_Witness ==
    /\ pc = "pause"
    /\ disk = Missing
    /\ prevFired # None
    /\ lastFired > prevFired
    /\ isoformat(prevFired) \notin Range(scheduled_times)
    /\ isoformat(lastFired) \notin Range(scheduled_times)

\* C16 as stated, in the form a finite run refutes: in the run that generated
\* the schedule, not cancelled, when the loop finds nothing more to wait for
\* (it goes to the idle sleep) every timestamp of the schedule has been fired
\* and removed: none is left in the list.
C16_AllPerformed ==
    (pc = "idle" /\ restarts = 0 /\ ~should_terminate) => scheduled_times = <<>>

\* C16 amended: every timestamp the loop selects is performed once, unless
\* the daemon is cancelled or killed first: the selected timestamp is pending
\* and later than the last one fired, the wait for it ends only in its firing
\* (at or after its time), which is followed by its removal; and when the
\* uncancelled first run goes idle, every timestamp left in the list was at or
\* before the clock when the loop looked (it was passed over, and is never
\* performed).
C16_Selected ==
    /\ pc \in {"event", "event_sleeping", "fire"} =>
          /\ isoformat(nxt) \in Range(scheduled_times)
          /\ lastFired # None => nxt > lastFired
    /\ pc = "fire" => clock >= nxt
    /\ (pc = "idle" /\ restarts = 0 /\ ~should_terminate) =>
          \A e \in Ticks(scheduled_times) : e <= clock

C16_Step ==
    /\ (pc \in {"event", "event_sleeping"} /\ pc' \notin {"event", "event_sleeping"}) =>
          \/ pc' = "fire" /\ ~should_terminate
          \/ pc' = "done" /\ should_terminate
          \/ pc' = "down"
    /\ (pc = "fire" /\ pc' # pc) =>
          /\ pc' \in {"remove", "down"}
          /\ pc' = "remove" => lastFired' = nxt
    /\ (pc = "remove" /\ pc' # pc) =>
          /\ pc' \in {"pause", "down"}
          /\ pc' = "pause" => isoformat(nxt) \notin Range(scheduled_times')

C16_SelectedPerformed == [](C16_Selected) /\ [][C16_Step]_vars

\* the first run, not cancelled, has gone idle with a timestamp left that is
\* later than the last one it fired: it was passed over
C16_Witness ==
    /\ pc = "idle"
    /\ restarts = 0
    /\ ~should_terminate
    /\ lastFired # None
    /\ \E e \in Ticks(scheduled_times) : e > lastFired /\ e <= clock

\* every persisted timestamp lies in the window of the persisted date and is
\* later than the clock
PersistedPending ==
    /\ disk.kind = "ok"
    /\ \A e \in Ticks(disk.times) :
          /\ disk.date * DayLen + cfg.start_hour * SecsPerHour <= e
          /\ e <= disk.date * DayLen + cfg.end_hour * SecsPerHour
          /\ e > clock

\* C17: right after each step that persists the state (creation at startup
\* or in the loop, the resume purge, each consumption) every timestamp of the
\* persisted list belongs to the window of the persisted date and is strictly
\* later than the time of the write.
C17_PendingTimes ==
    [][(StartSaveStep \/ ResumeStep \/ RegenStep \/ RemoveStep) => PersistedPending']_vars

\* C18: the timestamp the loop chooses to sleep for and fire is the least of
\* the pending entries strictly after the clock the choice read, and none is
\* chosen when there is no such entry; an entry at or before that clock is
\* never chosen: the chosen time stays later than the iteration's clock until
\* it is fired, and the firing performs the chosen time.
C18_NextDue ==
    /\ (pc = "event" /\ slept = 0) =>
          /\ MemFuture(clock) # {}
          /\ nxt = MinOf(MemFuture(clock))
          /\ \A e \in Ticks(scheduled_times) : e <= clock => nxt # e
    /\ (pc = "idle" /\ slept = 0) =>
          /\ MemFuture(clock) = {}
          /\ nxt = None
    /\ pc \in {"event", "event_sleeping", "fire", "remove"} => nxt > now
    /\ pc = "remove" => lastFired = nxt

\* the choice has just passed over an entry whose time has gone by and has
\* taken the entry behind it, which is still ahead
C18_Witness ==
    /\ pc = "event"
    /\ slept = 0
    /\ Len(scheduled_times) >= 2
    /\ fromisoformat(scheduled_times[1]) <= clock
    /\ nxt = fromisoformat(scheduled_times[2])
    /\ nxt > clock

C20_Fired == fireCount <= cfg.max_commits

C20_Generated == (StartGenerateStep \/ RegenStep) => genDay' # genDay

C20_PerDayBound == [](C20_Fired) /\ [][C20_Generated]_vars

====
